---- MODULE Spec2Model ----
(***************************************************************************)
(* A model of the identity-resolution and provisioning core of             *)
(* UserAutomationService:                                                  *)
(*   - UserCreator.create_users and _assign_to_group_with_retry            *)
(*     (src/app/user_creator.py), with the GraphAPIClient calls they make  *)
(*     (src/app/graph_api.py) as nondeterministic external outcomes;       *)
(*   - EmailGenerator (src/app/email_generator.py): name normalisation,    *)
(*     the duplicate matcher and the address allocator.                    *)
(* Text is modelled as a sequence of one-character strings, so that        *)
(* lower-casing, accent stripping, splitting and sorting are computed.     *)
(***************************************************************************)
EXTENDS Integers, Sequences, FiniteSets, TLC

VARIABLES
    \* ---- UserCreator.create_users / _assign_to_group_with_retry ----
    users,                  \* the batch: the list of user dicts
    create_in_office365,    \* the flag of create_users
    password_length,        \* settings.password_length
    pc,                     \* position of the running coroutine
    idx,                    \* position of the loop in new_users
    password,               \* local `password` of the current record
    group_name,             \* local `group_name` of the current record
    user_id,                \* local `user_id` of the current record
    group_id,               \* local `group_id` of the current record
    attempt,                \* loop variable of the retry loop
    max_attempts,           \* parameter of _assign_to_group_with_retry
    retry_ret,              \* what _assign_to_group_with_retry returned / raised
    group_cache,            \* GraphAPIClient._group_cache
    created_without_group,  \* the manual follow-up list
    results,                \* the list create_users returns (positions in users)
    summary,                \* the three counts of the final summary
    log,                    \* history of external calls and delays
    response,               \* the response add_user_to_group is looking at
    \* ---- EmailGenerator ----
    domain,                 \* EmailGenerator.domain
    _existing_emails,       \* the set of addresses of the directory
    _generated_in_batch,    \* the set of addresses generated in this batch
    _existing_users,        \* normalized name -> email
    roster,                 \* the users_info list given to load_existing_users
    calls,                  \* the generate_email calls since the last reset_batch
    checks,                 \* the check_existing_user calls made, with their results
    \* ---- UserProcessor.process_file ----
    file_users,             \* the list process_excel returned, as process_file fills it
    file_pc,                \* position of process_file
    file_idx,               \* position of its loop in file_users
    file_log,               \* history of the matcher and allocator calls it made
    \* ---- main ----
    all_users,              \* what process_file returned to main
    main_pc,                \* position of main
    office365_users,        \* what process_office365_users returned (positions in users)
    appconnecto_results,    \* what process_appconnecto_users returned
    email_results,          \* what the notification stage returned
    main_log,               \* history of the companion-application and mail calls
    reports                 \* what save_reports wrote

creatorVars == <<users, create_in_office365, password_length, pc, idx, password,
                 group_name, user_id, group_id, attempt, max_attempts, retry_ret,
                 group_cache, created_without_group, results, summary, log, response>>

emailVars == <<domain, _existing_emails, _generated_in_batch, _existing_users, roster,
               calls, checks>>

fileVars == <<file_users, file_pc, file_idx, file_log>>

mainVars == <<all_users, main_pc, office365_users, appconnecto_results, email_results,
              main_log, reports>>

flowVars == <<fileVars, mainVars>>

vars == <<creatorVars, emailVars, flowVars>>

----------------------------------------------------------------------------
(* Bounds of the model *)

\* longest batch handed to create_users
MaxUsers == 2

\* largest max_attempts tried when the retrier is called on its own
MaxN == 4

\* most generate_email calls between two reset_batch
MaxCalls == 3

\* most check_existing_user calls recorded
MaxChecks == 2

----------------------------------------------------------------------------
(* Text: a Python str is a sequence of one-character strings *)

UpperLetters == <<"A","B","C","D","E","F","G","H","I","J","K","L","M",
                  "N","O","P","Q","R","S","T","U","V","W","X","Y","Z">>
LowerLetters == <<"a","b","c","d","e","f","g","h","i","j","k","l","m",
                  "n","o","p","q","r","s","t","u","v","w","x","y","z">>
Digits == <<"0","1","2","3","4","5","6","7","8","9">>
UpperAccented == <<"Á","É","Í","Ó","Ú","Ñ","Ü">>
LowerAccented == <<"á","é","í","ó","ú","ñ","ü">>
\* the letters the accented ones decompose to (NFD, combining mark dropped)
BaseOfAccented == <<"a","e","i","o","u","n","u">>

\* the characters of the model in code point order
CodePointOrder ==
    <<" ", "-", ".">> \o Digits \o <<"@">> \o UpperLetters \o LowerLetters
    \o <<"Á","É","Í","Ñ","Ó","Ú","Ü","á","é","í","ñ","ó","ú","ü">>

Range(q) == {q[i] : i \in DOMAIN q}
IndexIn(c, q) == CHOOSE i \in DOMAIN q : q[i] = c
CodePoint(c) == IndexIn(c, CodePointOrder)

\* the character classes, as sets
UpperLetterSet == Range(UpperLetters)
UpperAccentedSet == Range(UpperAccented)
LowerAccentedSet == Range(LowerAccented)
AlnumSet ==
    Range(UpperLetters) \cup Range(LowerLetters) \cup Range(Digits)
        \cup Range(UpperAccented) \cup Range(LowerAccented)

\* str.lower() of one character
LowerChar(c) ==
    IF c \in UpperLetterSet THEN LowerLetters[IndexIn(c, UpperLetters)]
    ELSE IF c \in UpperAccentedSet THEN LowerAccented[IndexIn(c, UpperAccented)]
    ELSE c

\* str.lower()
Lower(t) == [i \in DOMAIN t |-> LowerChar(t[i])]

\* unicodedata.normalize('NFD', c) with the characters of category Mn dropped
StripMarksChar(c) ==
    IF c \in LowerAccentedSet THEN BaseOfAccented[IndexIn(c, LowerAccented)]
    ELSE IF c \in UpperAccentedSet
         THEN UpperLetters[IndexIn(BaseOfAccented[IndexIn(c, UpperAccented)], LowerLetters)]
    ELSE c

\* char.isalnum()
IsAlnum(c) == c \in AlnumSet

RECURSIVE SplitFrom(_, _, _)
\* str.split(): the maximal runs of non-space characters of t[i..], word = the run so far
SplitFrom(t, i, word) ==
    IF i > Len(t) THEN (IF word = <<>> THEN <<>> ELSE <<word>>)
    ELSE IF t[i] = " "
         THEN (IF word = <<>> THEN <<>> ELSE <<word>>) \o SplitFrom(t, i + 1, <<>>)
         ELSE SplitFrom(t, i + 1, Append(word, t[i]))

Split(t) == SplitFrom(t, 1, <<>>)

RECURSIVE Join(_)
\* ' '.join(words)
Join(words) ==
    IF words = <<>> THEN <<>>
    ELSE IF Len(words) = 1 THEN words[1]
    ELSE words[1] \o <<" ">> \o Join(Tail(words))

RECURSIVE StrLess(_, _)
\* a < b for two str (by code point, a proper prefix is smaller)
StrLess(a, b) ==
    IF b = <<>> THEN FALSE
    ELSE IF a = <<>> THEN TRUE
    ELSE IF a[1] = b[1] THEN StrLess(Tail(a), Tail(b))
    ELSE CodePoint(a[1]) < CodePoint(b[1])

RECURSIVE Insert(_, _)
\* w put into the sorted list ws (after the words equal to it)
Insert(w, ws) ==
    IF ws = <<>> THEN <<w>>
    ELSE IF StrLess(w, ws[1]) THEN <<w>> \o ws
    ELSE <<ws[1]>> \o Insert(w, Tail(ws))

RECURSIVE InsertionSort(_)
InsertionSort(ws) ==
    IF ws = <<>> THEN <<>> ELSE Insert(ws[Len(ws)], InsertionSort(SubSeq(ws, 1, Len(ws) - 1)))

\* (a variant that keeps the words in their order of appearance)
Sorted_Unsorted(ws) == ws

\* sorted(words)
Sorted(ws) == InsertionSort(ws)

RECURSIVE Str(_)
\* str(n) for n >= 0
Str(n) == IF n < 10 THEN <<Digits[n + 1]>> ELSE Str(n \div 10) \o <<Digits[(n % 10) + 1]>>

----------------------------------------------------------------------------
(* EmailGenerator (email_generator.py): normalisation *)

\* the replacements dict of lines 265-271
Replace(c) == IF c = "ñ" THEN "n" ELSE IF c = "ü" THEN "u" ELSE c

\* lines 255-271: lower-case, strip the accents, replace the special letters
Fold(t) == [i \in DOMAIN t |-> Replace(StripMarksChar(LowerChar(t[i])))]

\* _normalize_for_email(text, preserve_spaces) (lines 229-284)
NormalizeForEmail(t, preserve_spaces) ==
    IF t = <<>> THEN <<>>
    ELSE IF preserve_spaces
         THEN SelectSeq(Join(Split(Fold(t))), LAMBDA c : IsAlnum(c) \/ c = " ")
         ELSE SelectSeq(SelectSeq(Fold(t), LAMBDA c : c # " "), IsAlnum)

\* _normalize_name_for_comparison_from_display (lines 203-227)
NormalizeFromDisplay(display_name) ==
    Join(Sorted(Split(NormalizeForEmail(display_name, TRUE))))

\* _normalize_name_for_comparison (lines 170-201)
NormalizeForComparison(full_name, full_last_name) ==
    Join(Sorted(Split(NormalizeForEmail(full_name \o <<" ">> \o full_last_name, TRUE))))

----------------------------------------------------------------------------
(* EmailGenerator: the allocator *)

\* the safety limit of the numeric loop (line 167)
NumericLimit == 9999

\* "not found" for a function that returns an address
NoEmail == <<>>

\* _is_available (lines 286-304)
IsAvailable(email, existing, batch) ==
    /\ Lower(email) \notin existing
    /\ Lower(email) \notin batch

\* f"{local}@{self.domain}"
Address(local, dom) == local \o <<"@">> \o dom

\* lines 125-130: the base local part
BaseEmail(first_name, first_last_name) ==
    NormalizeForEmail(first_name, FALSE) \o <<".">> \o NormalizeForEmail(first_last_name, FALSE)

\* line 127
SecondLastNormalized(second_last_name) ==
    IF second_last_name # <<>> THEN NormalizeForEmail(second_last_name, FALSE) ELSE <<>>

RECURSIVE FirstLetterSuffix(_, _, _, _, _, _)
\* lines 143-150: the first i in i..len(second) whose candidate is available, 0 if none
FirstLetterSuffix(base, second, i, dom, existing, batch) ==
    IF i > Len(second) THEN 0
    ELSE IF IsAvailable(Address(base \o SubSeq(second, 1, i), dom), existing, batch) THEN i
    ELSE FirstLetterSuffix(base, second, i + 1, dom, existing, batch)

\* (a variant whose loop gives up one counter earlier)
FirstCounter_StopsEarly(base, counter, dom, existing, batch) ==
    LET free(c) == IsAvailable(Address(base \o Str(c), dom), existing, batch)
    IN  IF \E c \in counter..(NumericLimit - 1) : free(c)
        THEN CHOOSE c \in counter..(NumericLimit - 1) :
                 free(c) /\ \A d \in counter..(c - 1) : ~free(d)
        ELSE 0

\* lines 155-168: the while loop tries counter, counter + 1, ... and stops at the
\* first one whose candidate is available; when counter passes the limit before
\* that, it raises (0 here). The counters tried are counter..NumericLimit.
FirstCounter(base, counter, dom, existing, batch) ==
    LET free(c) == IsAvailable(Address(base \o Str(c), dom), existing, batch)
    IN  IF \E c \in counter..NumericLimit : free(c)
        THEN CHOOSE c \in counter..NumericLimit :
                 free(c) /\ \A d \in counter..(c - 1) : ~free(d)
        ELSE 0

\* what generate_email returns (lines 101-168): ok = FALSE for the exception
GenerateEmailResult(first_name, first_last_name, second_last_name, dom, existing, batch) ==
    LET base == BaseEmail(first_name, first_last_name)
        second == SecondLastNormalized(second_last_name)
        i == IF second # <<>> THEN FirstLetterSuffix(base, second, 1, dom, existing, batch)
             ELSE 0
        n == FirstCounter(base, 1, dom, existing, batch)
    IN  IF IsAvailable(Address(base, dom), existing, batch)
        THEN [ok |-> TRUE, email |-> Address(base, dom)]
        ELSE IF i > 0
        THEN [ok |-> TRUE, email |-> Address(base \o SubSeq(second, 1, i), dom)]
        ELSE IF n > 0
        THEN [ok |-> TRUE, email |-> Address(base \o Str(n), dom)]
        ELSE [ok |-> FALSE, email |-> NoEmail]

\* lines 135, 148, 160: self._generated_in_batch.add(...)
BatchAfter(batch, r) == IF r.ok THEN batch \cup {r.email} ELSE batch

\* line 45: {e.lower() for e in emails}
LoadedEmails(emails) == {Lower(e) : e \in emails}

\* (a variant in which the first identity of a key keeps it)
LoadUsers_FirstWins(users_info, i, st) ==
    LET email(k) == Lower(users_info[k].email)
        kept == {k \in i..Len(users_info) :
                    users_info[k].email # <<>> /\ users_info[k].display_name # <<>>}
        key(k) == NormalizeFromDisplay(users_info[k].display_name)
        keys == {key(k) : k \in kept}
        first(x) == CHOOSE k \in kept :
                      /\ key(k) = x
                      /\ \A j \in i..(k - 1) : j \in kept => key(j) # x
    IN  [users |-> [x \in DOMAIN st.users \cup keys |->
                       IF x \in keys THEN email(first(x)) ELSE st.users[x]],
         emails |-> st.emails \cup {email(k) : k \in kept}]

\* lines 59-69: the loop of load_existing_users from position i on;
\* st = [users |-> _existing_users, emails |-> _existing_emails]. Every entry with
\* an email and a display name adds its lower-cased email to the set, and a name
\* met several times keeps the email of its last entry.
LoadUsers(users_info, i, st) ==
    LET email(k) == Lower(users_info[k].email)
        kept == {k \in i..Len(users_info) :
                    users_info[k].email # <<>> /\ users_info[k].display_name # <<>>}
        key(k) == NormalizeFromDisplay(users_info[k].display_name)
        keys == {key(k) : k \in kept}
        last(x) == CHOOSE k \in kept :
                      /\ key(k) = x
                      /\ \A j \in (k + 1)..Len(users_info) : j \in kept => key(j) # x
    IN  [users |-> [x \in DOMAIN st.users \cup keys |->
                       IF x \in keys THEN email(last(x)) ELSE st.users[x]],
         emails |-> st.emails \cup {email(k) : k \in kept}]

\* lines 89-99: the lookup of check_existing_user
CheckExistingUserResult(full_name, full_last_name, index) ==
    LET normalized_name == NormalizeForComparison(full_name, full_last_name)
    IN  IF normalized_name \in DOMAIN index THEN index[normalized_name] ELSE NoEmail

----------------------------------------------------------------------------
(* Python values *)

\* Python's None (also: key absent from the dict, for u.get(...))
None == "<None>"

\* truthiness of an optional string: None and "" are falsy
Truthy(v) == v # None /\ v # ""

\* settings.student_group / settings.teacher_group
student_group == "Estudiantes Licencias A5"
teacher_group == "Administrativos Licencia A5"

GroupNames == {student_group, teacher_group}

\* vinculation types met in a batch: the two allowed ones and an unknown one
VinculationTypes == {"Estudiante", "Docente", "Otro"}

\* settings.password_length as configured: the default and one below the minimum
PasswordLengths == {7, 12}

\* text of a non-201 response of POST /users (response.text()), possibly empty
ErrorTexts == {"", "Request_BadRequest"}

\* str(e) of an exception raised by an external call (str(asyncio.TimeoutError()) is "")
ExcMessages == {"", "Connection reset"}

\* the id the directory gives the account created for the record at position i
NewUserId(i) == "uid-" \o ToString(i)

\* the id of the directory group with this name
GroupIdOf(g) == "gid-" \o g

\* max_attempts passed by create_users
MaxAttempts == 3

\* generate_secure_password: raises ValueError below 8 characters, else a fresh
\* random credential (one distinct value per record)
PasswordRaises(length) == length < 8
PasswordValueError == "La contraseña debe tener al menos 8 caracteres"
GeneratePassword(i) == "Pw#" \o ToString(i)

\* UserCreator._get_group_for_vinculation
GetGroupForVinculation(vinculation_type) ==
    IF vinculation_type = "Estudiante" THEN student_group
    ELSE IF vinculation_type = "Docente" THEN teacher_group
    ELSE student_group

----------------------------------------------------------------------------
(* The batch *)

\* a user dict as process_file hands it over: the creation fields are absent
UserDict(st, vt, i) ==
    [status |-> st, vinculation_type |-> vt,
     institutional_email |-> "user" \o ToString(i) \o "@ecr.edu.co",
     office365_created |-> None, office365_user_id |-> None,
     password_generated |-> None, group_assigned |-> None,
     creation_error |-> None]

\* the kinds of record of a batch
UserKinds == {<<"new", vt>> : vt \in VinculationTypes} \cup {<<"existing", "Estudiante">>}

Batches ==
    UNION { { [i \in 1..n |-> UserDict(k[i][1], k[i][2], i)] : k \in [1..n -> UserKinds] }
            : n \in 0..MaxUsers }

RECURSIVE Positions(_, _, _)
\* positions i..Len(us) of the users with status st, in order
Positions(us, st, i) ==
    IF i > Len(us) THEN <<>>
    ELSE (IF us[i].status = st THEN <<i>> ELSE <<>>) \o Positions(us, st, i + 1)

\* new_users / existing_users of create_users, as positions in users
new_users == Positions(users, "new", 1)
existing_users == Positions(users, "existing", 1)

\* a history entry: an external call or a delay made for the record at position u
\* (ext: the call issued a request to the directory, FALSE for a cache answer)
Event(op, u, arg, res, ext) ==
    [op |-> op, user |-> u, arg |-> arg, res |-> res, ext |-> ext]

----------------------------------------------------------------------------
(* UserCreator.create_users: what each branch writes into the user dict *)

\* lines 155-159: created, group found, the retrier returned group_assigned
FieldsAfterAssign(u, uid, pw, gname, assigned) ==
    [u EXCEPT !.office365_created = "True",
              !.office365_user_id = uid,
              !.password_generated = pw,
              !.group_assigned = IF assigned THEN gname ELSE None,
              !.creation_error = None]

\* (a variant that reports the record as failed when its group is missing)
FieldsGroupNotFound_AsFailure(u, uid, pw, gname) ==
    [u EXCEPT !.office365_created = "False",
              !.password_generated = pw,
              !.group_assigned = None,
              !.creation_error = "Grupo '" \o gname \o "' no encontrado"]

\* lines 175-179: created, group not found
FieldsGroupNotFound(u, uid, pw, gname) ==
    [u EXCEPT !.office365_created = "True",
              !.office365_user_id = uid,
              !.password_generated = pw,
              !.group_assigned = None,
              !.creation_error = "Grupo '" \o gname \o "' no encontrado"]

\* lines 192-195: create_user answered success False with this error text
FieldsCreationFailed(u, pw, error) ==
    [u EXCEPT !.office365_created = "False",
              !.password_generated = pw,
              !.group_assigned = None,
              !.creation_error = error]

\* lines 201-204: simulation mode
FieldsSimulation(u, pw, gname) ==
    [u EXCEPT !.office365_created = "False",
              !.password_generated = pw,
              !.group_assigned = gname,
              !.creation_error = None]

\* lines 211-214: the except clause, msg = str(e)
FieldsException(u, msg) ==
    [u EXCEPT !.office365_created = "False",
              !.password_generated = None,
              !.group_assigned = None,
              !.creation_error = msg]

\* lines 220-223: an existing user
FieldsExisting(u) ==
    [u EXCEPT !.office365_created = "False",
              !.password_generated = None,
              !.group_assigned = None,
              !.creation_error = None]

\* lines 163-169 and 182-188: an entry of the manual follow-up list
FollowUpEntry(u, uid, pw, gname) ==
    [email |-> u.institutional_email, user_id |-> uid,
     password |-> pw, group_pending |-> gname]

\* lines 161 and 173: the branches that append to created_without_group
FollowUpAfterAssign(cwg, u, uid, pw, gname, assigned) ==
    IF ~assigned THEN Append(cwg, FollowUpEntry(u, uid, pw, gname)) ELSE cwg

FollowUpGroupNotFound(cwg, u, uid, pw, gname) ==
    Append(cwg, FollowUpEntry(u, uid, pw, gname))

\* `except Exception` (line 209): the exceptions of a stage are caught
ExceptionIsCaught == TRUE

\* position in users of the record being processed
cur == new_users[idx]

\* the record is finished: results.append(user) and the loop moves on
NextRecord(us) ==
    /\ users' = us
    /\ results' = Append(results, cur)
    /\ idx' = idx + 1
    /\ pc' = "loop"
    /\ password' = None
    /\ group_name' = None
    /\ user_id' = None
    /\ group_id' = None

\* an exception raised inside the try block (lines 209-216)
HandleException(msg) ==
    IF ExceptionIsCaught
    THEN NextRecord([users EXCEPT ![cur] = FieldsException(users[cur], msg)])
    ELSE /\ pc' = "propagated"
         /\ UNCHANGED <<users, results, idx, password, group_name, user_id, group_id>>

----------------------------------------------------------------------------
(* GraphAPIClient.add_user_to_group (graph_api.py 315-371) *)

\* pat in t, for two str
Contains(t, pat) ==
    \E i \in 1..(Len(t) - Len(pat) + 1) : SubSeq(t, i, i + Len(pat) - 1) = pat

\* the two texts looked for at line 362
AlreadyExist == <<"a","l","r","e","a","d","y"," ","e","x","i","s","t">>
AlreadyAMember == <<"a","l","r","e","a","d","y"," ","a"," ","m","e","m","b","e","r">>

\* no response is being looked at
NoResponse == [status |-> 0, text |-> <<>>]

\* answers of POST /groups/{id}/members/$ref: 204, the 400 of a user who is in the
\* group already (in the two wordings, in the directory's capitals and in others),
\* a 400 for another reason, and errors with another status
AddResponses ==
    { [status |-> 204, text |-> <<>>],
      [status |-> 400, text |-> <<"R","e","f","s"," ","A","l","r","e","a","d","y"," ","E","x","i","s","t",".">>],
      [status |-> 400, text |-> <<"A","L","R","E","A","D","Y"," ","A"," ","M","E","M","B","E","R">>],
      [status |-> 400, text |-> <<"B","a","d"," ","r","e","f">>],
      [status |-> 403, text |-> <<"D","e","n","i","e","d">>],
      [status |-> 404, text |-> <<>>] }

\* (a variant that compares without lower())
AddUserToGroupResult_CaseSensitive(r) ==
    IF r.status = 204 THEN "True"
    ELSE IF r.status = 400
         THEN IF Contains(r.text, AlreadyExist) \/ Contains(r.text, AlreadyAMember)
              THEN "True" ELSE "False"
    ELSE "False"

\* lines 353-371: what add_user_to_group returns for a response
AddUserToGroupResult(r) ==
    IF r.status = 204 THEN "True"
    ELSE IF r.status = 400
         THEN IF Contains(Lower(r.text), AlreadyExist)
                 \/ Contains(Lower(r.text), AlreadyAMember)
              THEN "True" ELSE "False"
    ELSE "False"

----------------------------------------------------------------------------
(* _assign_to_group_with_retry (user_creator.py 51-89) *)

\* the retrier has not returned yet / returned v / raised an exception with str(e) = m
RetryRunning == [state |-> "running", value |-> None]
RetryReturned(v) == [state |-> "returned", value |-> v]
RetryRaised(m) == [state |-> "raised", value |-> m]

\* (a variant with the range one too long: range(1, max_attempts + 2))
RangeHasNext_OneMore(a, n) == a + 1 <= n + 1

\* line 70: range(1, max_attempts + 1) has an element after `a` (a = 0: a first one)
RangeHasNext(a, n) == a + 1 <= n

\* (a variant that also waits after the last attempt)
ShouldBackoff_Always(a, n) == a <= n

\* line 83: if attempt < max_attempts
ShouldBackoff(a, n) == a < n

\* line 79: if success
IsSuccess(success) == success = "True"

\* the record the retrier works for: its position in users, 0 when called on its own
retry_user == IF idx >= 1 /\ idx <= Len(new_users) THEN new_users[idx] ELSE 0

\* line 70: entering the for loop
RetryEnter ==
    /\ UNCHANGED <<emailVars, flowVars>>
    /\ UNCHANGED response
    /\ pc = "retry_enter"
    /\ IF RangeHasNext(0, max_attempts)
       THEN /\ attempt' = 1
            /\ pc' = "add_user_to_group"
            /\ retry_ret' = RetryRunning
       ELSE /\ attempt' = attempt
            /\ pc' = "retry_done"
            /\ retry_ret' = RetryReturned("False")
    /\ UNCHANGED <<users, create_in_office365, password_length, idx, password,
                   group_name, user_id, group_id, max_attempts, group_cache,
                   created_without_group, results, summary, log>>

\* lines 73-85: one await of add_user_to_group and what the loop does with its result
CallAddUserToGroup ==
    /\ UNCHANGED <<emailVars, flowVars>>
    /\ pc = "add_user_to_group"
    /\ \/ \E r \in AddResponses : LET success == AddUserToGroupResult(r) IN
            /\ response' = r
            /\ log' = Append(log, Event("add_user_to_group", retry_user, user_id, success, TRUE))
            /\ IF IsSuccess(success)
               THEN /\ retry_ret' = RetryReturned("True")
                    /\ pc' = "retry_done"
                    /\ attempt' = attempt
               ELSE IF ShouldBackoff(attempt, max_attempts)
               THEN /\ retry_ret' = retry_ret
                    /\ pc' = "backoff"
                    /\ attempt' = attempt
               ELSE IF RangeHasNext(attempt, max_attempts)
               THEN /\ retry_ret' = retry_ret
                    /\ pc' = "add_user_to_group"
                    /\ attempt' = attempt + 1
               ELSE /\ retry_ret' = RetryReturned("False")
                    /\ pc' = "retry_done"
                    /\ attempt' = attempt
       \/ \E m \in ExcMessages :
            /\ response' = NoResponse
            /\ log' = Append(log, Event("add_user_to_group", retry_user, user_id, "raise", TRUE))
            /\ retry_ret' = RetryRaised(m)
            /\ pc' = "retry_done"
            /\ attempt' = attempt
    /\ UNCHANGED <<users, create_in_office365, password_length, idx, password,
                   group_name, user_id, group_id, max_attempts, group_cache,
                   created_without_group, results, summary>>

\* line 85: await asyncio.sleep(5), then the next iteration if the range has one
BackoffSleep ==
    /\ UNCHANGED <<emailVars, flowVars>>
    /\ UNCHANGED response
    /\ pc = "backoff"
    /\ log' = Append(log, Event("sleep5", retry_user, user_id, None, FALSE))
    /\ IF RangeHasNext(attempt, max_attempts)
       THEN /\ attempt' = attempt + 1
            /\ pc' = "add_user_to_group"
            /\ retry_ret' = retry_ret
       ELSE /\ attempt' = attempt
            /\ pc' = "retry_done"
            /\ retry_ret' = RetryReturned("False")
    /\ UNCHANGED <<users, create_in_office365, password_length, idx, password,
                   group_name, user_id, group_id, max_attempts, group_cache,
                   created_without_group, results, summary>>

----------------------------------------------------------------------------
(* GraphAPIClient.get_group_id (graph_api.py 188-237) *)

\* line 206: group_name in self._group_cache
InGroupCache(cache, g) == cache[g] # None

\* lines 226-228: a found group is stored in the cache
CacheAfterFound(cache, g, gid) == [cache EXCEPT ![g] = gid]

----------------------------------------------------------------------------
(* UserCreator.create_users (user_creator.py 91-267) *)

\* (a variant without the propagation wait)
PcAfterCreated_NoWait == "get_group_id"

\* where the coroutine goes after a successful create_user (lines 135-140)
PcAfterCreated == "propagation"

\* lines 119-127 and 199-207: start of an iteration, up to the create_user await
BeginRecord ==
    /\ UNCHANGED <<emailVars, flowVars>>
    /\ UNCHANGED response
    /\ pc = "loop"
    /\ idx <= Len(new_users)
    /\ IF PasswordRaises(password_length)
       THEN HandleException(PasswordValueError)
       ELSE LET pw == GeneratePassword(cur)
                gn == GetGroupForVinculation(users[cur].vinculation_type)
            IN  IF create_in_office365
                THEN /\ password' = pw
                     /\ group_name' = gn
                     /\ pc' = "create_user"
                     /\ UNCHANGED <<users, results, idx, user_id, group_id>>
                ELSE NextRecord([users EXCEPT ![cur] = FieldsSimulation(users[cur], pw, gn)])
    /\ UNCHANGED <<create_in_office365, password_length, attempt, max_attempts,
                   retry_ret, group_cache, created_without_group, summary, log>>

\* lines 129-136 and 190-198: await create_user (graph_api.py 291-313)
CallCreateUser ==
    /\ UNCHANGED <<emailVars, flowVars>>
    /\ UNCHANGED response
    /\ pc = "create_user"
    /\ \/ /\ log' = Append(log, Event("create_user", cur, password, "success", TRUE))
          /\ user_id' = NewUserId(cur)
          /\ pc' = PcAfterCreated
          /\ UNCHANGED <<users, results, idx, password, group_name, group_id>>
       \/ \E error \in ErrorTexts :
            /\ log' = Append(log, Event("create_user", cur, password, "failure", TRUE))
            /\ NextRecord([users EXCEPT ![cur] = FieldsCreationFailed(users[cur], password, error)])
       \/ \E m \in ExcMessages :
            /\ log' = Append(log, Event("create_user", cur, password, "raise", TRUE))
            /\ HandleException(m)
    /\ UNCHANGED <<create_in_office365, password_length, attempt, max_attempts,
                   retry_ret, group_cache, created_without_group, summary>>

\* lines 138-140: await asyncio.sleep(15)
PropagationSleep ==
    /\ UNCHANGED <<emailVars, flowVars>>
    /\ UNCHANGED response
    /\ pc = "propagation"
    /\ log' = Append(log, Event("sleep15", cur, None, None, FALSE))
    /\ pc' = "get_group_id"
    /\ UNCHANGED <<users, create_in_office365, password_length, idx, password,
                   group_name, user_id, group_id, attempt, max_attempts, retry_ret,
                   group_cache, created_without_group, results, summary>>

\* a group id was returned (line 145 true): call the retrier with max_attempts=3
EnterRetrier(gid) ==
    /\ group_id' = gid
    /\ max_attempts' = MaxAttempts
    /\ attempt' = 0
    /\ retry_ret' = RetryRunning
    /\ pc' = "retry_enter"
    /\ UNCHANGED <<users, results, idx, password, group_name, user_id,
                   created_without_group>>

\* no group id (lines 173-189)
GroupNotFound ==
    /\ created_without_group' =
          FollowUpGroupNotFound(created_without_group, users[cur], user_id, password, group_name)
    /\ NextRecord([users EXCEPT ![cur] =
                      FieldsGroupNotFound(users[cur], user_id, password, group_name)])
    /\ UNCHANGED <<attempt, max_attempts, retry_ret>>

\* lines 143-145: await get_group_id, answered from the cache or by the directory
CallGetGroupId ==
    /\ UNCHANGED <<emailVars, flowVars>>
    /\ UNCHANGED response
    /\ pc = "get_group_id"
    /\ IF InGroupCache(group_cache, group_name)
       THEN /\ log' = Append(log, Event("get_group_id", cur, group_name,
                                        group_cache[group_name], FALSE))
            /\ group_cache' = group_cache
            /\ IF Truthy(group_cache[group_name])
               THEN EnterRetrier(group_cache[group_name])
               ELSE GroupNotFound
       ELSE \/ /\ log' = Append(log, Event("get_group_id", cur, group_name,
                                           GroupIdOf(group_name), TRUE))
               /\ group_cache' = CacheAfterFound(group_cache, group_name, GroupIdOf(group_name))
               /\ EnterRetrier(GroupIdOf(group_name))
            \/ /\ log' = Append(log, Event("get_group_id", cur, group_name, None, TRUE))
               /\ group_cache' = group_cache
               /\ GroupNotFound
            \/ \E m \in ExcMessages :
                 /\ log' = Append(log, Event("get_group_id", cur, group_name, "raise", TRUE))
                 /\ group_cache' = group_cache
                 /\ HandleException(m)
                 /\ UNCHANGED <<attempt, max_attempts, retry_ret, created_without_group>>
    /\ UNCHANGED <<create_in_office365, password_length, summary>>

\* lines 147-172 and 207: the retrier returned (or raised) inside create_users
AfterAssign ==
    /\ UNCHANGED <<emailVars, flowVars>>
    /\ pc = "retry_done"
    /\ idx >= 1
    /\ response' = NoResponse
    /\ IF retry_ret.state = "raised"
       THEN /\ HandleException(retry_ret.value)
            /\ UNCHANGED created_without_group
       ELSE LET assigned == (retry_ret.value = "True") IN
            /\ created_without_group' =
                  FollowUpAfterAssign(created_without_group, users[cur], user_id,
                                      password, group_name, assigned)
            /\ NextRecord([users EXCEPT ![cur] =
                  FieldsAfterAssign(users[cur], user_id, password, group_name, assigned)])
    /\ UNCHANGED <<create_in_office365, password_length, attempt, max_attempts,
                   retry_ret, group_cache, summary, log>>

\* lines 227-230: sum(1 for u in results if ...), results given as positions in us
IsCreatedWithGroup(u) == u.office365_created = "True" /\ Truthy(u.group_assigned)
CreatedWithGroup(us, res) ==
    Cardinality({k \in 1..Len(res) : IsCreatedWithGroup(us[res[k]])})

\* lines 232-235
IsError(u) == u.office365_created = "False" /\ u.status = "new"
\* (a variant that forgets the status test of line 234)
Errors_AnyStatus(us, res) ==
    Cardinality({k \in 1..Len(res) : us[res[k]].office365_created = "False"})

Errors(us, res) ==
    Cardinality({k \in 1..Len(res) : IsError(us[res[k]])})

RECURSIVE MarkExisting(_, _)
\* lines 219-223: every existing user gets the four fields
MarkExisting(us, ex) ==
    IF ex = <<>> THEN us
    ELSE MarkExisting([us EXCEPT ![Head(ex)] = FieldsExisting(us[Head(ex)])], Tail(ex))

\* lines 254-265: who carries created_without_group_list in the returned list:
\* the first result, 0 for an appended metadata item, -1 when the list is empty
ListHolder(cwg, res) ==
    IF cwg = <<>> THEN -1 ELSE IF res = <<>> THEN 0 ELSE Head(res)

\* lines 218-267: the existing users, the summary and the return
FinishBatch ==
    /\ UNCHANGED <<emailVars, flowVars>>
    /\ UNCHANGED response
    /\ pc = "loop"
    /\ idx > Len(new_users)
    /\ LET us == MarkExisting(users, existing_users)
           res == results \o existing_users
       IN  /\ users' = us
           /\ results' = res
           /\ summary' = [created_with_group |-> CreatedWithGroup(us, res),
                          created_no_group |-> Len(created_without_group),
                          errors |-> Errors(us, res),
                          list_holder |-> ListHolder(created_without_group, res)]
    /\ pc' = "done"
    /\ UNCHANGED <<create_in_office365, password_length, idx, password, group_name,
                   user_id, group_id, attempt, max_attempts, retry_ret, group_cache,
                   created_without_group, log>>

NoSummary == [created_with_group |-> 0, created_no_group |-> 0, errors |-> 0,
              list_holder |-> -1]

\* the three lists of process_appconnecto_users (main.py 130-132), the
\* email_results of a notification stage that did not send (main.py 367, 370), and
\* the reports before save_reports has written them
NoResults == [created |-> <<>>, already_exist |-> <<>>, failed |-> <<>>]
NoEmailResults == [sent |-> <<>>, failed |-> <<>>]
NoReports == [saved |-> FALSE, office365 |-> <<>>, appconnecto |-> NoResults,
              emails |-> NoEmailResults]

\* neither process_file nor main takes part in the run
NoFile ==
    /\ file_users = <<>>
    /\ file_pc = "idle"
    /\ file_idx = 0
    /\ file_log = <<>>

NoMain ==
    /\ all_users = <<>>
    /\ main_pc = "idle"
    /\ office365_users = <<>>
    /\ appconnecto_results = NoResults
    /\ email_results = NoEmailResults
    /\ main_log = <<>>
    /\ reports = NoReports

NoFlow == NoFile /\ NoMain

\* no EmailGenerator takes part in the run
NoGenerator ==
    /\ domain = <<>>
    /\ _existing_emails = {}
    /\ _generated_in_batch = {}
    /\ _existing_users = <<>>
    /\ roster = <<>>
    /\ calls = <<>>
    /\ checks = <<>>

\* a fresh GraphAPIClient and a call create_users(users, create_in_office365)
Init ==
    /\ users \in Batches
    /\ create_in_office365 \in BOOLEAN
    /\ password_length \in PasswordLengths
    /\ pc = "loop"
    /\ idx = 1
    /\ password = None
    /\ group_name = None
    /\ user_id = None
    /\ group_id = None
    /\ attempt = 0
    /\ max_attempts = MaxAttempts
    /\ retry_ret = RetryRunning
    /\ group_cache = [g \in GroupNames |-> None]
    /\ created_without_group = <<>>
    /\ results = <<>>
    /\ summary = NoSummary
    /\ log = <<>>
    /\ response = NoResponse
    /\ NoGenerator
    /\ NoFlow

Next ==
    \/ BeginRecord
    \/ CallCreateUser
    \/ PropagationSleep
    \/ CallGetGroupId
    \/ RetryEnter
    \/ CallAddUserToGroup
    \/ BackoffSleep
    \/ AfterAssign
    \/ FinishBatch

Spec == Init /\ [][Next]_vars

\* the same run when every await of create_users returns or raises and the
\* coroutine is resumed: a step that can be taken is eventually taken
\* (on the batches whose vinculation types are the two the schema allows)
LiveBatches == {b \in Batches : \A i \in 1..Len(b) : b[i].vinculation_type # "Otro"}

InitLive == Init /\ users \in LiveBatches

SpecLive == InitLive /\ [][Next]_vars /\ WF_vars(Next)

(* _assign_to_group_with_retry called on its own, with any max_attempts *)
InitRetry ==
    /\ users = <<>>
    /\ create_in_office365 = TRUE
    /\ password_length = 12
    /\ pc = "retry_enter"
    /\ idx = 0
    /\ password = None
    /\ group_name \in GroupNames
    /\ user_id = NewUserId(1)
    /\ group_id = GroupIdOf(group_name)
    /\ attempt = 0
    /\ max_attempts \in -1..MaxN
    /\ retry_ret = RetryRunning
    /\ group_cache = [g \in GroupNames |-> None]
    /\ created_without_group = <<>>
    /\ results = <<>>
    /\ summary = NoSummary
    /\ log = <<>>
    /\ response = NoResponse
    /\ NoGenerator
    /\ NoFlow

NextRetry ==
    \/ RetryEnter
    \/ CallAddUserToGroup
    \/ BackoffSleep

SpecRetry == InitRetry /\ [][NextRetry]_vars

----------------------------------------------------------------------------
(* EmailGenerator: the operations *)

\* the configured domains: the default one, and one written with a capital
Domains == { <<"e","c","r",".","c","o">>, <<"E","C","R",".","c","o">> }

\* names given to generate_email
FirstNames == { <<"A","n","a">>, <<"L","Ú">> }
FirstLastNames == { <<"P","a","z">> }
SecondLastNames == { <<>>, <<"G","i">> }

\* addresses the directory may hold already, as the directory spells them
EmailPool ==
    { <<"a","n","a",".","p","a","z","@","e","c","r",".","c","o">>,
      <<"A","n","a",".","P","a","z","G","@","e","c","r",".","c","o">>,
      <<"a","n","a",".","p","a","z","g","i","@","E","C","R",".","c","o">>,
      <<"a","n","a",".","p","a","z","1","@","e","c","r",".","c","o">> }

\* no create_users run takes part
NoCreator ==
    /\ users = <<>>
    /\ create_in_office365 = TRUE
    /\ password_length = 12
    /\ pc = "idle"
    /\ idx = 0
    /\ password = None
    /\ group_name = None
    /\ user_id = None
    /\ group_id = None
    /\ attempt = 0
    /\ max_attempts = MaxAttempts
    /\ retry_ret = RetryRunning
    /\ group_cache = [g \in GroupNames |-> None]
    /\ created_without_group = <<>>
    /\ results = <<>>
    /\ summary = NoSummary
    /\ log = <<>>
    /\ response = NoResponse

\* EmailGenerator(domain) (lines 26-36)
InitEmail ==
    /\ NoCreator
    /\ NoFlow
    /\ domain \in Domains
    /\ _existing_emails = {}
    /\ _generated_in_batch = {}
    /\ _existing_users = <<>>
    /\ roster = <<>>
    /\ calls = <<>>
    /\ checks = <<>>

\* load_existing_emails(emails) (lines 38-46), before the first allocation
LoadExistingEmails ==
    /\ calls = <<>>
    /\ _generated_in_batch = {}
    /\ _existing_emails = {}
    /\ \E emails \in (SUBSET EmailPool) \ {{}} :
          _existing_emails' = LoadedEmails(emails)
    /\ UNCHANGED <<domain, _generated_in_batch, _existing_users, roster, calls, checks>>
    /\ UNCHANGED <<creatorVars, flowVars>>

\* generate_email(first_name, first_last_name, second_last_name) (lines 101-168)
GenerateEmail ==
    /\ Len(calls) < MaxCalls
    /\ \E first_name \in FirstNames, first_last_name \in FirstLastNames,
          second_last_name \in SecondLastNames :
          LET r == GenerateEmailResult(first_name, first_last_name, second_last_name,
                                       domain, _existing_emails, _generated_in_batch)
          IN  /\ _generated_in_batch' = BatchAfter(_generated_in_batch, r)
              /\ calls' = Append(calls,
                     [first_name |-> first_name, first_last_name |-> first_last_name,
                      second_last_name |-> second_last_name,
                      existing |-> _existing_emails, batch |-> _generated_in_batch,
                      ok |-> r.ok, email |-> r.email])
    /\ UNCHANGED <<domain, _existing_emails, _existing_users, roster, checks>>
    /\ UNCHANGED <<creatorVars, flowVars>>

\* reset_batch() (lines 306-313)
ResetBatch ==
    /\ calls # <<>>
    /\ _generated_in_batch' = {}
    /\ calls' = <<>>
    /\ UNCHANGED <<domain, _existing_emails, _existing_users, roster, checks>>
    /\ UNCHANGED <<creatorVars, flowVars>>

\* rosters returned by get_all_users_info: a display name in another order, two
\* identities with the same name, an identity without display name, one without
\* address
Rosters ==
    { << [email |-> <<"a",".","p","@","e","c","r",".","c","o">>,
          display_name |-> <<"L","ú"," ","P","a","z"," ","A","n","a">>] >>,
      << [email |-> <<"a",".","p","@","e","c","r",".","c","o">>,
          display_name |-> <<"A","n","a"," ","L","ú"," ","P","a","z">>],
         [email |-> <<"A",".","P","1","@","e","c","r",".","c","o">>,
          display_name |-> <<"P","A","Z",","," ","A","n","a"," ","L","U">>] >>,
      << [email |-> <<"a",".","p","@","e","c","r",".","c","o">>,
          display_name |-> <<"A","n","a"," ","P","a","z">>],
         [email |-> <<"l",".","p","@","e","c","r",".","c","o">>,
          display_name |-> <<>>],
         [email |-> <<>>,
          display_name |-> <<"A","n","a"," ","L","ú"," ","P","a","z">>] >> }

\* candidates given to check_existing_user: <<full_name, full_last_name>>
Candidates ==
    { << <<"A","n","a"," ","L","ú">>, <<"P","a","z">> >>,
      << <<"A","n","a">>, <<"L","ú"," ","P","a","z">> >>,
      << <<"P","A","Z">>, <<"l","u"," "," ","a","n","a">> >>,
      << <<"A","n","a">>, <<"P","a","z">> >>,
      << <<"A","n","a","-","L","ú">>, <<"P","a","z">> >>,
      << <<>>, <<"P","a","z"," ","L","ú"," ","A","n","a">> >> }

\* load_existing_users(users_info) (lines 48-71), before the first lookup
LoadExistingUsers ==
    /\ roster = <<>>
    /\ checks = <<>>
    /\ \E users_info \in Rosters :
          LET st == LoadUsers(users_info, 1,
                              [users |-> _existing_users, emails |-> _existing_emails])
          IN  /\ roster' = users_info
              /\ _existing_users' = st.users
              /\ _existing_emails' = st.emails
    /\ UNCHANGED <<domain, _generated_in_batch, calls, checks>>
    /\ UNCHANGED <<creatorVars, flowVars>>

\* check_existing_user(full_name, full_last_name) (lines 73-99)
CheckExistingUser ==
    /\ Len(checks) < MaxChecks
    /\ \E c \in Candidates :
          checks' = Append(checks,
              [full_name |-> c[1], full_last_name |-> c[2],
               result |-> CheckExistingUserResult(c[1], c[2], _existing_users)])
    /\ UNCHANGED <<domain, _existing_emails, _generated_in_batch, _existing_users,
                   roster, calls>>
    /\ UNCHANGED <<creatorVars, flowVars>>

NextMatch ==
    \/ LoadExistingUsers
    \/ CheckExistingUser

SpecMatch == InitEmail /\ [][NextMatch]_vars

NextEmail ==
    \/ LoadExistingEmails
    \/ GenerateEmail
    \/ ResetBatch

SpecEmail == InitEmail /\ [][NextEmail]_vars

----------------------------------------------------------------------------
(* UserProcessor.process_file (user_processor.py 40-105) *)

\* UserProcessor(domain): the domain of the generator
FileDomain == <<"e","c","r",".","c","o">>

\* UserSchema.extract_names_for_email (schemas.py 262-269)
FirstWord(t) == IF Split(t) = <<>> THEN <<>> ELSE Split(t)[1]
SecondWord(t) == IF Len(Split(t)) > 1 THEN Split(t)[2] ELSE <<>>

\* a user dict as process_excel returns it
FileUser(full_name, full_last_name) ==
    [full_name |-> full_name, full_last_name |-> full_last_name,
     first_name |-> FirstWord(full_name),
     first_last_name |-> FirstWord(full_last_name),
     second_last_name |-> SecondWord(full_last_name),
     institutional_email |-> NoEmail, status |-> None]

\* the people of a file
FilePeople ==
    { FileUser(<<"A","n","a">>, <<"P","a","z">>),
      FileUser(<<"A","n","a">>, <<"P","a","z"," ","G","i">>),
      FileUser(<<"L","ú"," ","E","v","a">>, <<"R","e","y">>),
      FileUser(<<"E","v","a">>, <<"G","i","l">>) }

\* the files: every list of at most two people, and one of three
FileBatches ==
    {<<>>} \cup {<<a>> : a \in FilePeople} \cup {<<a, b>> : a, b \in FilePeople}
    \cup {<< FileUser(<<"A","n","a">>, <<"P","a","z">>), FileUser(<<"E","v","a">>, <<"G","i","l">>),
             FileUser(<<"L","ú"," ","E","v","a">>, <<"R","e","y">>) >>}

\* a directory in which the base address of Ana Paz and its numbered addresses
\* 1..n are taken by people with another name, followed by `more`
TakenUpTo(n, more) ==
    [k \in 1..(n + 1) |->
        [email |-> IF k = 1 THEN Address(<<"a","n","a",".","p","a","z">>, FileDomain)
                   ELSE Address(<<"a","n","a",".","p","a","z">> \o Str(k - 1), FileDomain),
         display_name |-> <<"Z","o","e">>]] \o more

\* what get_all_users_info returns (graph_api.py 138-147): lower-case addresses of
\* the domain with the display name the directory has, possibly empty
SmallRosters ==
    { <<>>,
      << [email |-> Address(<<"e","v","a",".","g","i","l">>, FileDomain), display_name |-> <<"G","I","L",","," ","E","v","a">>],
         [email |-> Address(<<"a","n","a",".","p","a","z">>, FileDomain), display_name |-> <<"Z","o","e">>],
         [email |-> Address(<<"l","u",".","r","e","y">>, FileDomain), display_name |-> <<>>] >>,
      << [email |-> Address(<<"a","n","a",".","p","a","z">>, FileDomain), display_name |-> <<"Z","o","e">>],
         [email |-> Address(<<"a","n","a",".","p","a","z","g">>, FileDomain), display_name |-> <<"Z","o","e">>],
         [email |-> Address(<<"a","n","a",".","p","a","z","1">>, FileDomain), display_name |-> <<"G","I","L",","," ","E","v","a">>] >> }

\* the same addresses followed by the two letter-suffixed ones of Ana Paz Gi
TakenWithLetters(n) ==
    TakenUpTo(n, << [email |-> Address(<<"a","n","a",".","p","a","z","g">>, FileDomain), display_name |-> <<"Z","o","e">>],
                    [email |-> Address(<<"a","n","a",".","p","a","z","g","i">>, FileDomain), display_name |-> <<"G","I","L",","," ","E","v","a">>] >>)

\* files read against a directory in which a whole family of addresses is taken,
\* or all of it but the last numbered address
FullRuns ==
    { << << FileUser(<<"A","n","a">>, <<"P","a","z">>), FileUser(<<"L","ú"," ","E","v","a">>, <<"R","e","y">>) >>,
         TakenUpTo(NumericLimit, <<>>) >>,
      << << FileUser(<<"A","n","a">>, <<"P","a","z"," ","G","i">>) >>,
         TakenUpTo(NumericLimit, <<>>) >>,
      << << FileUser(<<"A","n","a">>, <<"P","a","z">>) >>,
         TakenUpTo(NumericLimit - 1, <<>>) >>,
      << << FileUser(<<"L","ú"," ","E","v","a">>, <<"R","e","y">>), FileUser(<<"A","n","a">>, <<"P","a","z"," ","G","i">>) >>,
         TakenWithLetters(NumericLimit) >>,
      << << FileUser(<<"E","v","a">>, <<"G","i","l">>), FileUser(<<"A","n","a">>, <<"P","a","z"," ","G","i">>), FileUser(<<"L","ú"," ","E","v","a">>, <<"R","e","y">>) >>,
         TakenWithLetters(NumericLimit) >> }

\* a file and the directory it is read against
FileRuns == (FileBatches \X SmallRosters) \cup FullRuns

\* UserProcessor(domain) with a domain written with capitals: get_all_users_info
\* compares the lower-cased addresses with "@" + domain (graph_api.py 143), so
\* the roster it returns is empty
CapitalDomain == <<"E","C","R",".","c","o">>

\* files read with that domain
CapitalDomainFiles ==
    { << FileUser(<<"A","n","a">>, <<"P","a","z">>), FileUser(<<"A","n","a">>, <<"P","a","z">>) >>,
      << FileUser(<<"E","v","a">>, <<"G","i","l">>), FileUser(<<"A","n","a">>, <<"P","a","z">>) >> }

\* a history entry of process_file: a matcher or allocator call for the user at u
FileEvent(op, u, ok, email) == [op |-> op, user |-> u, ok |-> ok, email |-> email]

\* UserProcessor(), then process_file on a validated file (lines 59-62)
InitFile ==
    /\ NoCreator
    /\ NoMain
    /\ _existing_emails = {}
    /\ _generated_in_batch = {}
    /\ _existing_users = <<>>
    /\ calls = <<>>
    /\ checks = <<>>
    /\ \/ /\ domain = FileDomain
          /\ \E run \in FileRuns : file_users = run[1] /\ roster = run[2]
       \/ /\ domain = CapitalDomain
          /\ file_users \in CapitalDomainFiles
          /\ roster = <<>>
    /\ file_pc = "load"
    /\ file_idx = 0
    /\ file_log = <<>>

\* lines 66-67: get_all_users_info, then load_existing_users
FileLoad ==
    /\ file_pc = "load"
    /\ LET st == LoadUsers(roster, 1,
                           [users |-> _existing_users, emails |-> _existing_emails])
       IN  /\ _existing_users' = st.users
           /\ _existing_emails' = st.emails
    /\ file_pc' = "resolve"
    /\ file_idx' = 1
    /\ UNCHANGED <<domain, _generated_in_batch, roster, calls, checks, file_users,
                   file_log>>
    /\ UNCHANGED <<creatorVars, mainVars>>

\* (a variant that takes every candidate for a new one)
IsMatched_Never(existing_email) == FALSE

\* line 84: if existing_email
IsMatched(existing_email) == existing_email # NoEmail

\* lines 75-100: one iteration of the loop; an exception of generate_email is not
\* caught in process_file and ends it
FileResolve ==
    /\ file_pc = "resolve"
    /\ file_idx <= Len(file_users)
    /\ LET user == file_users[file_idx]
           existing_email == CheckExistingUserResult(user.full_name, user.full_last_name,
                                                     _existing_users)
           checked == Append(file_log, FileEvent("check_existing_user", file_idx,
                                                 existing_email # NoEmail, existing_email))
           r == GenerateEmailResult(user.first_name, user.first_last_name,
                                    user.second_last_name, domain,
                                    _existing_emails, _generated_in_batch)
       IN  IF IsMatched(existing_email)
           THEN /\ file_users' = [file_users EXCEPT ![file_idx] =
                       [user EXCEPT !.institutional_email = existing_email,
                                    !.status = "existing"]]
                /\ file_log' = checked
                /\ file_idx' = file_idx + 1
                /\ file_pc' = file_pc
                /\ UNCHANGED _generated_in_batch
           ELSE /\ file_log' = Append(checked,
                                      FileEvent("generate_email", file_idx, r.ok, r.email))
                /\ _generated_in_batch' = BatchAfter(_generated_in_batch, r)
                /\ IF r.ok
                   THEN /\ file_users' = [file_users EXCEPT ![file_idx] =
                               [user EXCEPT !.institutional_email = r.email,
                                            !.status = "new"]]
                        /\ file_idx' = file_idx + 1
                        /\ file_pc' = file_pc
                   ELSE /\ file_pc' = "raised"
                        /\ UNCHANGED <<file_users, file_idx>>
    /\ UNCHANGED <<domain, _existing_emails, _existing_users, roster, calls, checks>>
    /\ UNCHANGED <<creatorVars, mainVars>>

\* line 105: return users
FileReturn ==
    /\ file_pc = "resolve"
    /\ file_idx > Len(file_users)
    /\ file_pc' = "returned"
    /\ UNCHANGED <<file_users, file_idx, file_log>>
    /\ UNCHANGED <<creatorVars, emailVars, mainVars>>

NextFile ==
    \/ FileLoad
    \/ FileResolve
    \/ FileReturn

SpecFile == InitFile /\ [][NextFile]_vars

----------------------------------------------------------------------------
(* main (main.py 297-385) and the stage functions it calls *)

\* what process_file may return to main: lists of resolved records
MainBatches ==
    { <<>>,
      << UserDict("existing", "Estudiante", 1) >>,
      << UserDict("new", "Estudiante", 1) >>,
      << UserDict("existing", "Docente", 1), UserDict("new", "Estudiante", 2) >>,
      << UserDict("new", "Estudiante", 1), UserDict("new", "Docente", 2) >> }

\* answers typed at a prompt, after strip().upper()
PromptAnswers == {"S", "YES", "N", "NO", ""}

\* the answers taken for yes (lines 84, 353, 363) and for no (line 86)
YesAnswers == {"S", "SI", "SÍ", "Y", "YES"}
NoAnswers == {"N", "NO"}

\* (a variant that takes every answer for a yes)
GetUserConfirmation_AlwaysYes(answer) == "True"

\* get_user_confirmation (lines 80-88) on one answer: "again" asks once more
GetUserConfirmation(answer) ==
    IF answer \in YesAnswers THEN "True"
    ELSE IF answer \in NoAnswers THEN "False"
    ELSE "again"

\* a history entry of main: a prompt, a stage call or a call of a collaborator,
\* with the records (positions in users) it was given
MainEvent(op, given, res) == [op |-> op, users |-> given, res |-> res]

\* line 110: the records of results that were created and have a credential
CreatedUsers(us, res) ==
    SelectSeq(res, LAMBDA k : us[k].office365_created = "True"
                                /\ Truthy(us[k].password_generated))

\* line 359: the records of office365_users that have a credential
UsersForEmail(us, created) ==
    SelectSeq(created, LAMBDA k : Truthy(us[k].password_generated))

\* the records of the process_appconnecto_users loop handled so far
AppHandled ==
    Len(appconnecto_results.created) + Len(appconnecto_results.already_exist)
        + Len(appconnecto_results.failed)

\* main is started on a file (lines 297-316)
InitMain ==
    /\ NoCreator
    /\ NoGenerator
    /\ NoFile
    /\ all_users = <<>>
    /\ main_pc = "process_file"
    /\ office365_users = <<>>
    /\ appconnecto_results = NoResults
    /\ email_results = NoEmailResults
    /\ main_log = <<>>
    /\ reports = NoReports

\* line 317: process_file returns the resolved batch, or raises (lines 380-385)
MainProcessFile ==
    /\ main_pc = "process_file"
    /\ \/ \E batch \in MainBatches :
            /\ all_users' = batch
            /\ main_pc' = "confirm"
       \/ /\ all_users' = all_users
          /\ main_pc' = "exit"
    /\ UNCHANGED <<office365_users, appconnecto_results, email_results, main_log, reports>>
    /\ UNCHANGED <<creatorVars, emailVars, fileVars>>

\* lines 320-342: the split, the confirmation, and the call of create_users on the
\* new records by process_office365_users (line 107)
MainConfirm ==
    /\ main_pc = "confirm"
    /\ IF Positions(all_users, "new", 1) = <<>>
       THEN /\ main_pc' = "finished"
            /\ UNCHANGED <<main_log, users, pc, idx>>
       ELSE \E answer \in PromptAnswers :
              /\ GetUserConfirmation(answer) # "again"
              /\ main_log' = Append(main_log, MainEvent("get_user_confirmation", <<>>, answer))
              /\ IF GetUserConfirmation(answer) = "True"
                 THEN /\ users' = SelectSeq(all_users, LAMBDA u : u.status = "new")
                      /\ pc' = "loop"
                      /\ idx' = 1
                      /\ main_pc' = "office365"
                 ELSE /\ main_pc' = "finished"
                      /\ UNCHANGED <<users, pc, idx>>
    /\ UNCHANGED <<create_in_office365, password_length, password, group_name, user_id,
                   group_id, attempt, max_attempts, retry_ret, group_cache,
                   created_without_group, results, summary, log, response>>
    /\ UNCHANGED <<all_users, office365_users, appconnecto_results, email_results, reports>>
    /\ UNCHANGED <<emailVars, fileVars>>

\* lines 110-112 and 344-355: create_users has returned; the created records are
\* kept, and main stops when there is none
MainAfterOffice365 ==
    /\ main_pc = "office365"
    /\ pc = "done"
    /\ LET created_users == CreatedUsers(users, results)
       IN  /\ office365_users' = created_users
           /\ IF created_users = <<>>
              THEN /\ main_pc' = "finished"
                   /\ main_log' = main_log
              ELSE /\ main_pc' = "appconnecto_client"
                   /\ main_log' = Append(main_log,
                         MainEvent("process_appconnecto_users", created_users, None))
    /\ UNCHANGED <<all_users, appconnecto_results, email_results, reports>>
    /\ UNCHANGED <<creatorVars, emailVars, fileVars>>

\* the parameters of AppConnectoClient.__init__ besides self (appconnecto.py 26)
InitParameters == {"headless"}

\* the keyword arguments of the call at main.py 134
ClientKeywords == {"headless", "debug_screenshots"}

\* a Python call binds its keyword arguments: a keyword that is no parameter of a
\* function without **kwargs raises TypeError
CallBinds(keywords, parameters) == keywords \subseteq parameters

\* main.py 130-134: process_appconnecto_users builds its client before the try
\* block; an exception of the constructor leaves the function without login and
\* without close, and main's except clause ends the run (lines 380-385)
AppConstructClient ==
    /\ main_pc = "appconnecto_client"
    /\ IF CallBinds(ClientKeywords, InitParameters)
       THEN /\ main_log' = Append(main_log, MainEvent("AppConnectoClient", <<>>, "client"))
            /\ main_pc' = "login"
       ELSE /\ main_log' = Append(main_log, MainEvent("AppConnectoClient", <<>>, "raise"))
            /\ main_pc' = "exit"
    /\ UNCHANGED <<all_users, office365_users, appconnecto_results, email_results, reports>>
    /\ UNCHANGED <<creatorVars, emailVars, fileVars>>

\* The rest of process_appconnecto_users and of main, lines 136-172 and 357-378,
\* runs only with a client: AppLogin, AppCreateUser, AppClose, MainEmails and
\* MainSave are the steps of those lines.

\* lines 136-146 and 165-166: the login; when it fails every record is returned as
\* failed, after the finally clause has closed the client
AppLogin ==
    /\ main_pc = "login"
    /\ \/ /\ main_log' = Append(main_log, MainEvent("login", <<>>, "True"))
          /\ appconnecto_results' = appconnecto_results
          /\ main_pc' = "appconnecto"
       \/ /\ main_log' = main_log \o << MainEvent("login", <<>>, "False"),
                                        MainEvent("close", <<>>, None) >>
          /\ appconnecto_results' = [created |-> <<>>, already_exist |-> <<>>,
                                     failed |-> office365_users]
          /\ main_pc' = "emails"
    /\ UNCHANGED <<all_users, office365_users, email_results, reports>>
    /\ UNCHANGED <<creatorVars, emailVars, fileVars>>

\* lines 149-163: one iteration of the loop over the records
AppCreateUser ==
    /\ main_pc = "appconnecto"
    /\ AppHandled < Len(office365_users)
    /\ LET user == office365_users[AppHandled + 1] IN
       \E status \in {"created", "already_exists", "error"} :
          /\ main_log' = Append(main_log, MainEvent("appconnecto.create_user", <<user>>, status))
          /\ appconnecto_results' =
                IF status = "created"
                THEN [appconnecto_results EXCEPT !.created = Append(@, user)]
                ELSE IF status = "already_exists"
                THEN [appconnecto_results EXCEPT !.already_exist = Append(@, user)]
                ELSE [appconnecto_results EXCEPT !.failed = Append(@, user)]
    /\ UNCHANGED <<all_users, main_pc, office365_users, email_results, reports>>
    /\ UNCHANGED <<creatorVars, emailVars, fileVars>>

\* lines 165-172: the loop is over, the client is closed, the lists are returned
AppClose ==
    /\ main_pc = "appconnecto"
    /\ AppHandled = Len(office365_users)
    /\ main_log' = Append(main_log, MainEvent("close", <<>>, None))
    /\ main_pc' = "emails"
    /\ UNCHANGED <<all_users, office365_users, appconnecto_results, email_results, reports>>
    /\ UNCHANGED <<creatorVars, emailVars, fileVars>>

\* lines 359-370: the notification stage, run when the operator says so;
\* send_welcome_emails reports every record as sent or as failed
MainEmails ==
    /\ main_pc = "emails"
    /\ LET users_for_email == UsersForEmail(users, office365_users) IN
       IF users_for_email = <<>>
       THEN /\ email_results' = NoEmailResults
            /\ main_log' = main_log
       ELSE \E answer \in PromptAnswers :
              IF answer \in YesAnswers
              THEN \E delivered \in SUBSET Range(users_for_email) :
                     /\ email_results' =
                           [sent |-> SelectSeq(users_for_email, LAMBDA k : k \in delivered),
                            failed |-> SelectSeq(users_for_email, LAMBDA k : k \notin delivered)]
                     /\ main_log' = main_log \o
                           << MainEvent("email_prompt", <<>>, answer),
                              MainEvent("send_welcome_emails", users_for_email, None) >>
              ELSE /\ email_results' = NoEmailResults
                   /\ main_log' = Append(main_log, MainEvent("email_prompt", <<>>, answer))
    /\ main_pc' = "save"
    /\ UNCHANGED <<all_users, office365_users, appconnecto_results, reports>>
    /\ UNCHANGED <<creatorVars, emailVars, fileVars>>

\* lines 373-378: save_reports writes the records of office365_users and the
\* results of the two other stages (lines 205-271)
MainSave ==
    /\ main_pc = "save"
    /\ reports' = [saved |-> TRUE,
                   office365 |-> [k \in 1..Len(office365_users) |-> users[office365_users[k]]],
                   appconnecto |-> appconnecto_results,
                   emails |-> email_results]
    /\ main_pc' = "finished"
    /\ UNCHANGED <<all_users, office365_users, appconnecto_results, email_results, main_log>>
    /\ UNCHANGED <<creatorVars, emailVars, fileVars>>

NextMain ==
    \/ MainProcessFile
    \/ MainConfirm
    \/ BeginRecord
    \/ CallCreateUser
    \/ PropagationSleep
    \/ CallGetGroupId
    \/ RetryEnter
    \/ CallAddUserToGroup
    \/ BackoffSleep
    \/ AfterAssign
    \/ FinishBatch
    \/ MainAfterOffice365
    \/ AppConstructClient

SpecMain == InitMain /\ [][NextMain]_vars

----------------------------------------------------------------------------
(* Reading the history *)

\* positions of the history entries with this operation made for the record at u
At(op, u) == {p \in 1..Len(log) : log[p].op = op /\ log[p].user = u}

\* the same, restricted to the entries with this result
AtRes(op, u, res) == {p \in At(op, u) : log[p].res = res}

\* the add_user_to_group calls of the history, in order
AddCalls == SelectSeq(log, LAMBDA e : e.op = "add_user_to_group")

\* the back-off delays of the history
Delays == SelectSeq(log, LAMBDA e : e.op = "sleep5")

\* the record at position u has left the loop of create_users
Finished(u) == \E k \in 1..Len(results) : results[k] = u

\* positions of the status-'new' records of the batch
NewSet == {u \in 1..Len(users) : users[u].status = "new"}

\* the three classes of the final summary, for one record
InCreatedWithGroup(u) == IsCreatedWithGroup(users[u])
InCreatedWithoutGroup(u) ==
    \E k \in 1..Len(created_without_group) :
        created_without_group[k].email = users[u].institutional_email
InErrors(u) == users[u].office365_created = "False"

BoolToNat(b) == IF b THEN 1 ELSE 0

----------------------------------------------------------------------------
(* C1 *)

\* C1: after a real run of create_users, whatever the external calls did, every
\* status-'new' record is in exactly one of the classes created-with-group,
\* created-without-group (the follow-up list) and error, and the three counts of
\* the summary add up to the number of status-'new' records.
C1_Partition ==
    (pc = "done" /\ create_in_office365) =>
        /\ summary.created_with_group + summary.created_no_group + summary.errors
              = Cardinality(NewSet)
        /\ \A u \in NewSet :
              BoolToNat(InCreatedWithGroup(u)) + BoolToNat(InCreatedWithoutGroup(u))
                 + BoolToNat(InErrors(u)) = 1
        /\ summary.created_with_group = Cardinality({u \in NewSet : InCreatedWithGroup(u)})
        /\ summary.created_no_group = Cardinality({u \in NewSet : InCreatedWithoutGroup(u)})
        /\ summary.errors = Cardinality({u \in NewSet : InErrors(u)})

\* a finished real run of a batch of two new records, one created without group and
\* one in error after an external call raised
C1_Witness ==
    /\ pc = "done"
    /\ create_in_office365
    /\ summary.created_no_group = 1
    /\ summary.errors = 1
    /\ \E p \in 1..Len(log) : log[p].res = "raise"

----------------------------------------------------------------------------
(* C4, C5: the retrier on its own *)

\* max_attempts, or 0 when it is not positive
AttemptCap == IF max_attempts > 0 THEN max_attempts ELSE 0

\* C4: with max_attempts = n the retrier calls add_user_to_group at most n times,
\* never again after a call returned True, returns True exactly when some call
\* returned True, and returns False only after n calls that all returned False
\* (none at all for n <= 0).
C4_BoundedAttempts ==
    /\ Len(AddCalls) <= AttemptCap
    /\ \A k \in 1..Len(AddCalls) : AddCalls[k].res = "True" => k = Len(AddCalls)
    /\ retry_ret.state = "returned" =>
          /\ (retry_ret.value = "True") <=>
                (\E k \in 1..Len(AddCalls) : AddCalls[k].res = "True")
          /\ retry_ret.value = "False" =>
                /\ Len(AddCalls) = AttemptCap
                /\ \A k \in 1..Len(AddCalls) : AddCalls[k].res = "False"

\* the retrier returned True on its third call, after two failures
C4_Witness ==
    /\ retry_ret = RetryReturned("True")
    /\ max_attempts >= 3
    /\ Len(AddCalls) = 3
    /\ AddCalls[1].res = "False" /\ AddCalls[2].res = "False"

\* the number of the call made at position p of the history
CallNumber(p) == Cardinality({q \in 1..p : log[q].op = "add_user_to_group"})

\* C5: a back-off delay follows a failed attempt exactly when another attempt
\* follows it: k-1 delays when the k-th attempt is the first success,
\* max_attempts-1 when every attempt fails, none after the last attempt or after
\* a success.
C5_Backoff ==
    /\ \A p \in 1..Len(log) :
          log[p].op = "sleep5" =>
             /\ p > 1
             /\ log[p-1].op = "add_user_to_group"
             /\ log[p-1].res = "False"
             /\ IF p < Len(log) THEN log[p+1].op = "add_user_to_group"
                ELSE pc = "add_user_to_group"
    /\ \A p \in 1..Len(log) :
          (log[p].op = "add_user_to_group" /\ log[p].res = "False") =>
             IF CallNumber(p) < max_attempts
             THEN IF p < Len(log) THEN log[p+1].op = "sleep5" ELSE pc = "backoff"
             ELSE p = Len(log) /\ pc = "retry_done"
    /\ retry_ret = RetryReturned("True") => Len(Delays) = Len(AddCalls) - 1
    /\ retry_ret = RetryReturned("False") =>
          Len(Delays) = (IF max_attempts >= 1 THEN max_attempts - 1 ELSE 0)

\* fail, fail, success: the retrier returned True and exactly two delays happened
C5_Witness ==
    /\ retry_ret = RetryReturned("True")
    /\ Len(AddCalls) = 3
    /\ Len(Delays) = 2

----------------------------------------------------------------------------
(* C6 - C9: one run of create_users *)

\* positions of the group lookups and assignment calls made for the record at u
GroupCallsOf(u) == At("get_group_id", u) \cup At("add_user_to_group", u)

\* C6: create_user is called at most once per status-'new' record and never for
\* an existing one; when the call reports failure the record ends with
\* office365_created False and a non-empty creation_error, and no settling delay,
\* group lookup or assignment is made for it.
C6_SingleCreation ==
    \A u \in 1..Len(users) :
        /\ Cardinality(At("create_user", u)) <= 1
        /\ users[u].status = "existing" => At("create_user", u) = {}
        /\ AtRes("create_user", u, "failure") # {} =>
              /\ At("sleep15", u) = {}
              /\ GroupCallsOf(u) = {}
              /\ Finished(u) =>
                    /\ users[u].office365_created = "False"
                    /\ Truthy(users[u].creation_error)

\* the group lookup for u returned no id, or the attempts made for u all returned
\* False and the retrier gave up
LookupReturnedNone(u) == AtRes("get_group_id", u, None) # {}
AllAttemptsFalse(u) ==
    /\ Cardinality(AtRes("add_user_to_group", u, "False")) = MaxAttempts
    /\ Cardinality(At("add_user_to_group", u)) = MaxAttempts

\* C7: when creation succeeded and the group lookup returned no id or every
\* assignment attempt returned False, the record ends created, with the id that
\* creation returned and the credential that was submitted, group_assigned None,
\* and on the manual follow-up list; no call deleting or disabling the account is
\* ever issued.
C7_NoRollback ==
    /\ \A u \in NewSet :
          (Finished(u) /\ AtRes("create_user", u, "success") # {}
             /\ (LookupReturnedNone(u) \/ AllAttemptsFalse(u))) =>
              /\ users[u].office365_created = "True"
              /\ users[u].office365_user_id = NewUserId(u)
              /\ \A p \in At("create_user", u) : users[u].password_generated = log[p].arg
              /\ users[u].group_assigned = None
              /\ \E k \in 1..Len(created_without_group) :
                    /\ created_without_group[k].email = users[u].institutional_email
                    /\ created_without_group[k].user_id = NewUserId(u)
    /\ \A p \in 1..Len(log) :
          log[p].op \in {"create_user", "sleep15", "get_group_id",
                         "add_user_to_group", "sleep5"}

\* a finished record whose account was created and whose group was not found, and
\* another whose three assignment attempts all returned False
C7_Witness ==
    /\ pc = "done"
    /\ \E u \in NewSet : AtRes("create_user", u, "success") # {} /\ LookupReturnedNone(u)
    /\ \E u \in NewSet : AtRes("create_user", u, "success") # {} /\ AllAttemptsFalse(u)

\* a stage of the record at u failed: the credential could not be generated, the
\* creation, the lookup or an assignment call raised, creation answered failure,
\* the group was not found, or every assignment attempt returned False
StageFailed(u) ==
    \/ (PasswordRaises(password_length) /\ create_in_office365)
    \/ \E p \in 1..Len(log) : log[p].user = u /\ log[p].res = "raise"
    \/ AtRes("create_user", u, "failure") # {}
    \/ LookupReturnedNone(u)
    \/ AllAttemptsFalse(u)

\* C8: create_users never lets a failure or exception of a per-record stage reach
\* its caller: the failure is stored in the record's creation_error and every
\* later status-'new' record is still processed.
C8_FailuresCaptured ==
    /\ pc # "propagated"
    /\ \A u \in NewSet :
          (Finished(u) /\ StageFailed(u)) => users[u].creation_error # None
    /\ pc = "done" => \A u \in NewSet : Finished(u)

\* C9: the settling delay of a record comes after its successful create_user call
\* and before its first group lookup or assignment call; no lookup or assignment
\* precedes the delay, and no delay is made for a record whose creation failed.
C9_PropagationWait ==
    \A u \in 1..Len(users) :
        /\ \A p \in GroupCallsOf(u) : \E q \in At("sleep15", u) : q < p
        /\ \A q \in At("sleep15", u) :
              \E c \in AtRes("create_user", u, "success") : c < q
        /\ (AtRes("create_user", u, "failure") # {} \/ AtRes("create_user", u, "raise") # {})
              => At("sleep15", u) = {}
        /\ \A c \in AtRes("create_user", u, "success") :
              IF c < Len(log) THEN log[c+1].op = "sleep15" /\ log[c+1].user = u
              ELSE pc = "propagation"

\* a record was created, waited, and its group was then looked up and assigned
C9_Witness ==
    \E u \in NewSet :
        /\ AtRes("create_user", u, "success") # {}
        /\ At("sleep15", u) # {}
        /\ At("get_group_id", u) # {}
        /\ At("add_user_to_group", u) # {}

----------------------------------------------------------------------------
(* C2, C3: the allocator *)

\* C2: in a sequence of generate_email calls without reset_batch, for any
\* configured domain, no returned address equals, case-insensitively, an address
\* of the pre-existing set or an address returned by an earlier call.
C2_Unique ==
    \A k \in 1..Len(calls) :
        calls[k].ok =>
            /\ \A e \in _existing_emails : Lower(e) # Lower(calls[k].email)
            /\ \A j \in 1..(k - 1) :
                  calls[j].ok => Lower(calls[j].email) # Lower(calls[k].email)

\* available in the sense of the specification: in neither set, case-insensitively
AvailableCI(email, existing, batch) ==
    \A e \in existing \cup batch : Lower(e) # Lower(email)

\* the k-th address of the ladder: the base, then the L letter-suffixed addresses,
\* then the numbered ones
LadderAt(k, first_name, first_last_name, second_last_name, dom) ==
    LET base == BaseEmail(first_name, first_last_name)
        second == NormalizeForEmail(second_last_name, FALSE)
    IN  IF k = 1 THEN Address(base, dom)
        ELSE IF k <= Len(second) + 1 THEN Address(base \o SubSeq(second, 1, k - 1), dom)
        ELSE Address(base \o Str(k - 1 - Len(second)), dom)

\* the first call of the sequence met empty sets, and every call had the same
\* input, without second family name
SameInputFromEmpty ==
    /\ calls # <<>>
    /\ calls[1].existing = {} /\ calls[1].batch = {}
    /\ \A k \in 1..Len(calls) :
          /\ calls[k].second_last_name = <<>>
          /\ calls[k].first_name = calls[1].first_name
          /\ calls[k].first_last_name = calls[1].first_last_name

\* C3: generate_email returns the first available address of the ladder (base,
\* letter suffixes of length 1..L, then the integers 1, 2, ...), and N successive
\* calls with the same input and no second family name against empty sets return
\* base, base1, ..., base(N-1) in that order.
C3_Ladder ==
    /\ \A n \in 1..Len(calls) :
          LET c == calls[n]
              rung(k) == LadderAt(k, c.first_name, c.first_last_name,
                                  c.second_last_name, domain)
              taken == Cardinality(c.existing \cup c.batch)
              L == Len(NormalizeForEmail(c.second_last_name, FALSE))
          IN  /\ c.ok
              /\ \E k \in 1..(L + taken + 2) :
                    /\ c.email = rung(k)
                    /\ AvailableCI(rung(k), c.existing, c.batch)
                    /\ \A j \in 1..(k - 1) : ~AvailableCI(rung(j), c.existing, c.batch)
    /\ SameInputFromEmpty =>
          \A n \in 1..Len(calls) :
              calls[n].email =
                  Address(BaseEmail(calls[1].first_name, calls[1].first_last_name)
                             \o (IF n = 1 THEN <<>> ELSE Str(n - 1)), domain)

----------------------------------------------------------------------------
(* C10: the matcher *)

\* the normalized tokens of a text: each whitespace-delimited word, normalized,
\* the words left empty dropped
TokensOf(t) ==
    SelectSeq([i \in DOMAIN Split(t) |-> NormalizeForEmail(Split(t)[i], FALSE)],
              LAMBDA w : w # <<>>)

Occurrences(w, ws) == Cardinality({i \in DOMAIN ws : ws[i] = w})

\* two token lists are the same multiset
SameTokens(a, b) ==
    \A w \in Range(a) \cup Range(b) : Occurrences(w, a) = Occurrences(w, b)

CandidateTokens(c) == TokensOf(c.full_name) \o TokensOf(c.full_last_name)

\* C10: against a fixed index the result of check_existing_user depends only on
\* the multiset of normalized tokens of given plus family name: candidates with
\* the same tokens (any order, any split, the same candidate again) get the same
\* result, and a roster display name made of the same tokens is matched.
C10_TokenMultiset ==
    /\ \A i, j \in 1..Len(checks) :
          SameTokens(CandidateTokens(checks[i]), CandidateTokens(checks[j]))
             => checks[i].result = checks[j].result
    /\ \A i \in 1..Len(checks) : \A r \in 1..Len(roster) :
          (/\ roster[r].email # <<>>
           /\ roster[r].display_name # <<>>
           /\ SameTokens(TokensOf(roster[r].display_name), CandidateTokens(checks[i])))
             => checks[i].result # NoEmail

\* two candidates written differently, with the same tokens, both matched
C10_Witness ==
    /\ Len(checks) >= 2
    /\ checks[1].full_name # checks[2].full_name
    /\ Len(checks[1].full_name) > 0 /\ Len(checks[2].full_name) > 0
    /\ SameTokens(CandidateTokens(checks[1]), CandidateTokens(checks[2]))
    /\ checks[1].result # NoEmail
    /\ checks[2].result = checks[1].result

----------------------------------------------------------------------------
(* C11: the answer of a user who is in the group already *)

\* two characters equal up to letter case
SameLetter(a, b) ==
    \/ a = b
    \/ \E i \in 1..Len(UpperLetters) :
          {a, b} = {UpperLetters[i], LowerLetters[i]}

\* pat occurs in t in some letter case
OccursAnyCase(t, pat) ==
    \E i \in 0..(Len(t) - Len(pat)) :
        \A j \in 1..Len(pat) : SameLetter(t[i + j], pat[j])

\* the directory's 400 answer saying the user is in the group already
SaysAlreadyMember(r) ==
    /\ r.status = 400
    /\ OccursAnyCase(r.text, AlreadyExist) \/ OccursAnyCase(r.text, AlreadyAMember)

\* the last add_user_to_group call of the history
LastAddCall == AddCalls[Len(AddCalls)]

\* C11: when the directory answers the membership write with its 'already exist' /
\* 'already a member' error in any letter case, add_user_to_group returns True, the
\* retrier returns True and makes no further attempt; for any other error response
\* add_user_to_group returns False.
C11_AlreadyMember ==
    response # NoResponse =>
        /\ AddCalls # <<>>
        /\ SaysAlreadyMember(response) =>
              /\ LastAddCall.res = "True"
              /\ log[Len(log)].op = "add_user_to_group"
              /\ pc = "retry_done"
              /\ retry_ret = RetryReturned("True")
        /\ (response.status # 204 /\ ~SaysAlreadyMember(response)) =>
              LastAddCall.res = "False"

\* the second attempt was answered 'already exist' in the directory's capitals and
\* the retrier returned True after one delay
C11_Witness ==
    /\ SaysAlreadyMember(response)
    /\ ~Contains(response.text, AlreadyExist)
    /\ Len(AddCalls) = 2
    /\ Len(Delays) = 1
    /\ retry_ret = RetryReturned("True")

----------------------------------------------------------------------------
(* C12, C13, C19: process_file and the allocator at its limit *)

\* positions of the history of process_file with this operation for the user at u
FileAt(op, u) == {p \in 1..Len(file_log) : file_log[p].op = op /\ file_log[p].user = u}

\* the generate_email calls that returned an address / that raised
Generated == {p \in 1..Len(file_log) : file_log[p].op = "generate_email" /\ file_log[p].ok}
Exhausted == {p \in 1..Len(file_log) : file_log[p].op = "generate_email" /\ ~file_log[p].ok}

\* the address is in one of the two sets of the generator
Taken(address) ==
    \/ Lower(address) \in _existing_emails
    \/ Lower(address) \in _generated_in_batch

\* the base, every letter-suffixed address and base1 .. base9999 of the user are taken
WholeLadderTaken(user) ==
    LET base == BaseEmail(user.first_name, user.first_last_name)
        second == NormalizeForEmail(user.second_last_name, FALSE)
    IN  /\ Taken(Address(base, domain))
        /\ \A i \in 1..Len(second) : Taken(Address(base \o SubSeq(second, 1, i), domain))
        /\ \A k \in 1..NumericLimit : Taken(Address(base \o Str(k), domain))

\* C12: generate_email fails only when the base, every letter-suffixed address and
\* every numbered address base1 .. base9999 are unavailable (the counters tried are
\* exactly 1 through 9999), and a failing call adds nothing to the batch set.
C12_Exhaustion ==
    /\ _generated_in_batch = {file_log[p].email : p \in Generated}
    /\ \A p \in Exhausted :
          /\ p = Len(file_log)
          /\ file_log[p].user = file_idx
          /\ WholeLadderTaken(file_users[file_idx])
    /\ \A p \in Generated :
          LET user == file_users[file_log[p].user]
              base == BaseEmail(user.first_name, user.first_last_name)
              second == NormalizeForEmail(user.second_last_name, FALSE)
              email == file_log[p].email
          IN  \/ email = Address(base, domain)
              \/ \E i \in 1..Len(second) : email = Address(base \o SubSeq(second, 1, i), domain)
              \/ \E digits \in 1..Len(Str(NumericLimit)) :
                    LET number == SubSeq(email, Len(base) + 1, Len(base) + digits)
                    IN  /\ email = Address(base \o number, domain)
                        /\ \A i \in 1..digits : number[i] \in Range(Digits)
                        /\ number[1] # "0"

\* an address was generated for the first person of the file, and the call for the
\* second one, who has a second family name, failed
C12_Witness ==
    /\ Exhausted # {}
    /\ Generated # {}
    /\ _generated_in_batch # {}
    /\ file_users[file_idx].second_last_name # <<>>

\* C13: an allocation failure for one candidate of process_file affects that
\* candidate only: process_file goes on, resolves the other candidates, and returns.
C13_FailureIsLocal ==
    /\ file_pc # "raised"
    /\ file_pc = "returned" =>
          \A u \in 1..Len(file_users) :
              Exhausted \cap FileAt("generate_email", u) = {} =>
                  /\ file_users[u].status \in {"new", "existing"}
                  /\ file_users[u].institutional_email # NoEmail

\* the candidates process_file has gone through
Resolved == {u \in 1..Len(file_users) : FileAt("check_existing_user", u) # {}}

\* the matcher matched the candidate at u
MatcherMatched(u) == \E p \in FileAt("check_existing_user", u) : file_log[p].ok

----------------------------------------------------------------------------
(* C14: a call of the retrier that raises *)

\* C14: when an add_user_to_group call raises (transport error, timeout) on attempt
\* k < max_attempts, the retrier counts the attempt as failed, waits the back-off
\* delay and makes attempt k+1; it does not raise itself.
C14_RaiseIsFailedAttempt ==
    /\ retry_ret.state # "raised"
    /\ \A p \in 1..Len(log) :
          (/\ log[p].op = "add_user_to_group"
           /\ log[p].res = "raise"
           /\ CallNumber(p) < max_attempts) =>
              IF p < Len(log) THEN log[p+1].op = "sleep5" ELSE pc = "backoff"

----------------------------------------------------------------------------
(* C20: the group cache *)

\* positions of the get_group_id calls made for this group name
LookupsOf(g) == {p \in 1..Len(log) : log[p].op = "get_group_id" /\ log[p].arg = g}

\* C20: in one batch at most one external lookup is issued per group name: after
\* the first get_group_id call for a name, every later call for that name is
\* answered from the cache, with the same result.
C20_OneLookupPerGroup ==
    \A g \in GroupNames :
        /\ Cardinality({p \in LookupsOf(g) : log[p].ext}) <= 1
        /\ \A p, q \in LookupsOf(g) :
              p < q => (~log[q].ext /\ log[q].res = log[p].res)

----------------------------------------------------------------------------
(* C15, C16, C18 *)

\* positions of the history entries of main with this operation
MainAt(op) == {p \in 1..Len(main_log) : main_log[p].op = op}

\* the directory answered the create_user call made for the record at u with success
ActuallyCreated(u) == AtRes("create_user", u, "success") # {}

\* process_office365_users has returned to main
Office365Returned ==
    /\ pc = "done"
    /\ main_pc \in {"appconnecto_client", "login", "appconnecto", "emails", "save",
                    "finished", "exit"}

\* C15: the records main keeps after the directory stage, and hands to the
\* companion-application stage and to the notification stage, are exactly the
\* status-'new' records whose directory account was actually created.
C15_HandedAreCreated ==
    /\ Office365Returned =>
          Range(office365_users) = {u \in NewSet : ActuallyCreated(u)}
    /\ \A p \in MainAt("process_appconnecto_users") \cup MainAt("send_welcome_emails") :
          Range(main_log[p].users) = {u \in NewSet : ActuallyCreated(u)}

\* C16: when main has ended a run in which create_users was called, the reports
\* are saved and every record whose directory creation failed is in them, with
\* its error message.
C16_FailuresReported ==
    (main_pc \in {"finished", "exit"} /\ pc = "done") =>
        /\ reports.saved
        /\ \A u \in NewSet :
              users[u].office365_created = "False" =>
                  \E k \in 1..Len(reports.office365) :
                      /\ reports.office365[k].institutional_email = users[u].institutional_email
                      /\ reports.office365[k].creation_error = users[u].creation_error

\* the operator answered no at the confirmation prompt
Declined == \E p \in MainAt("get_user_confirmation") : main_log[p].res \in {"N", "NO"}

\* process_file returned a batch without a status-'new' record
NoNewCandidate ==
    /\ main_pc \notin {"process_file", "exit"}
    /\ \A i \in 1..Len(all_users) : all_users[i].status # "new"

\* C18: when the operator declines the confirmation, or the batch has no new
\* candidate, there is no create_user call to the directory, no group lookup, no
\* group assignment, no call to the companion application and no notification.
C18_NothingWithoutConsent ==
    (Declined \/ NoNewCandidate) =>
        /\ log = <<>>
        /\ pc = "idle"
        /\ \A p \in 1..Len(main_log) : main_log[p].op = "get_user_confirmation"
        /\ office365_users = <<>>
        /\ ~reports.saved

\* (the operator declined a batch that has a new candidate, and main has returned)
C18_Witness ==
    /\ main_pc = "finished"
    /\ Declined
    /\ \E i \in 1..Len(all_users) : all_users[i].status = "new"

----------------------------------------------------------------------------
(* C21: termination of create_users *)

\* the record at u has at most this many entries of this operation in the history
AtMost(op, u, n) == Cardinality(At(op, u)) <= n

\* the record the last entry of the history was made for
LastUser == log[Len(log)].user

\* C21: when every external call returns or raises, create_users returns; every
\* status-'new' record is then classed (created with group, created without group
\* or failed), with at most one create_user call, one get_group_id call and three
\* add_user_to_group calls made for it; and the history is in the order of the
\* records, a record having left the loop before the first entry of the next one.
C21_Terminates ==
    /\ <>(pc = "done")
    /\ [](\A u \in NewSet :
            /\ AtMost("create_user", u, 1)
            /\ AtMost("get_group_id", u, 1)
            /\ AtMost("add_user_to_group", u, MaxAttempts))
    /\ [](\A p \in 1..Len(log) :
            /\ \A q \in p..Len(log) : log[p].user <= log[q].user
            /\ log[p].user # LastUser => Finished(log[p].user))
    /\ []((pc = "done") =>
            \A u \in NewSet :
                /\ Finished(u)
                /\ users[u].office365_created \in {"True", "False"}
                /\ create_in_office365 =>
                      InCreatedWithGroup(u) \/ InCreatedWithoutGroup(u) \/ InErrors(u))

\* (create_users has returned; a record had its three assignment calls fail, and a
\* later record was created)
C21_Witness ==
    /\ pc = "done"
    /\ \E u \in NewSet, v \in NewSet :
          /\ u < v
          /\ Cardinality(At("add_user_to_group", u)) = MaxAttempts
          /\ users[u].group_assigned = None
          /\ ActuallyCreated(v)

----------------------------------------------------------------------------
(* C22: the pause between two candidates *)

\* the history entries that are delays
IsDelay(e) == e.op \in {"sleep5", "sleep15"}

\* C22: where the history of create_users passes from one record to the next, a
\* delay separates the two records, and two create_user calls of the
\* companion-application loop of main are separated by a delay as well.
C22_PauseBetweenCandidates ==
    /\ \A p \in 1..(Len(log) - 1) :
          log[p].user # log[p + 1].user => IsDelay(log[p]) \/ IsDelay(log[p + 1])
    /\ \A p \in 1..(Len(main_log) - 1) :
          main_log[p].op = "appconnecto.create_user" =>
              main_log[p + 1].op # "appconnecto.create_user"

----------------------------------------------------------------------------
(* C23: a created account whose group stage raises *)

\* C23: a record that has left the loop and whose account the directory created
\* has office365_created True, the account id and the credential sent with the
\* create_user call; when it has no group it is in the manual follow-up list, and it
\* is not one of the records the summary counts as errors.
C23_CreatedNeverFailed ==
    \A u \in NewSet :
        (Finished(u) /\ ActuallyCreated(u)) =>
            /\ users[u].office365_created = "True"
            /\ users[u].office365_user_id = NewUserId(u)
            /\ \A p \in AtRes("create_user", u, "success") :
                  users[u].password_generated = log[p].arg
            /\ ~Truthy(users[u].group_assigned) => InCreatedWithoutGroup(u)
            /\ ~InErrors(u)

----------------------------------------------------------------------------
(* C24: the roster and the collision set *)

\* C24: once load_existing_users has run on the roster, every non-empty address of
\* the roster is in _existing_emails, whatever its display name, and generate_email
\* never returns an address that an identity of the roster holds.
C24_RosterAddressesTaken ==
    /\ file_pc \in {"resolve", "raised", "returned"} =>
          \A k \in 1..Len(roster) :
              roster[k].email # <<>> => Lower(roster[k].email) \in _existing_emails
    /\ \A p \in 1..Len(file_log) :
          (file_log[p].op = "generate_email" /\ file_log[p].ok) =>
              \A k \in 1..Len(roster) : Lower(roster[k].email) # Lower(file_log[p].email)

----------------------------------------------------------------------------
(* C25: several identities under one name key *)

\* the identities of the roster that load_existing_users keeps
KeptIdentities ==
    {k \in 1..Len(roster) : roster[k].email # <<>> /\ roster[k].display_name # <<>>}

\* two identities of the roster have the same name key
SameKey(j, k) ==
    NormalizeFromDisplay(roster[j].display_name) = NormalizeFromDisplay(roster[k].display_name)

\* the last kept identity of the roster with the name key of the identity at k
LastWithKey(k) ==
    CHOOSE j \in KeptIdentities :
        SameKey(j, k) /\ \A m \in KeptIdentities : SameKey(m, k) => m <= j

\* C25: for every kept identity of the roster, the index maps its name key to the
\* address of the last identity with that key, check_existing_user returns that
\* address for a candidate with that key, and the identity's own address is in
\* the collision set.
C25_LastWins ==
    \A k \in KeptIdentities :
        LET key == NormalizeFromDisplay(roster[k].display_name) IN
        /\ key \in DOMAIN _existing_users
        /\ _existing_users[key] = Lower(roster[LastWithKey(k)].email)
        /\ Lower(roster[k].email) \in _existing_emails
        /\ \A i \in 1..Len(checks) :
              NormalizeForComparison(checks[i].full_name, checks[i].full_last_name) = key
                 => checks[i].result = Lower(roster[LastWithKey(k)].email)

\* (two identities with one key and different addresses, and a candidate with that
\* key that was answered the address of the second)
C25_Witness ==
    \E j \in KeptIdentities, k \in KeptIdentities :
        /\ j < k
        /\ SameKey(j, k)
        /\ Lower(roster[j].email) # Lower(roster[k].email)
        /\ LastWithKey(j) = k
        /\ Lower(roster[j].email) \in _existing_emails
        /\ \E i \in 1..Len(checks) :
              /\ NormalizeForComparison(checks[i].full_name, checks[i].full_last_name)
                    = NormalizeFromDisplay(roster[k].display_name)
              /\ checks[i].result = Lower(roster[k].email)

----------------------------------------------------------------------------
(* C26: the companion-application stage in a run of main *)

\* the records of the create_user calls made to the companion application, in order
AppCreateCalls ==
    [k \in 1..Len(SelectSeq(main_log, LAMBDA e : e.op = "appconnecto.create_user")) |->
        SelectSeq(main_log, LAMBDA e : e.op = "appconnecto.create_user")[k].users[1]]

\* C26: a confirmed run of main that kept at least one created account ends with
\* the client of the companion application built, a login made, one create_user
\* call per kept record in their order when the login succeeded, the notification
\* decision taken and the reports saved.
C26_CompanionStageRuns ==
    (main_pc \in {"finished", "exit"} /\ office365_users # <<>>) =>
        /\ \E p \in MainAt("AppConnectoClient") : main_log[p].res = "client"
        /\ MainAt("login") # {}
        /\ (\E p \in MainAt("login") : main_log[p].res = "True")
              => AppCreateCalls = office365_users
        /\ main_pc = "finished"
        /\ reports.saved

----------------------------------------------------------------------------
(* C27, C28, C30: the fields of the returned records *)

\* the creation of the record at u answered failure, its group was not found, or
\* every attempt of its assignment returned False
StageOutcomeFailed(u) ==
    \/ AtRes("create_user", u, "failure") # {}
    \/ LookupReturnedNone(u)
    \/ AllAttemptsFalse(u)

\* C27: after create_users, every status-'new' record with a failed stage has a
\* non-empty creation_error.
C27_FailureLeavesMessage ==
    (pc = "done" /\ create_in_office365) =>
        \A u \in NewSet : StageOutcomeFailed(u) => Truthy(users[u].creation_error)

\* C28: in every record returned by create_users, in real and in simulation mode,
\* password_generated is non-empty only if the account of the record was created,
\* and every created account has one.
C28_PasswordMeansCreated ==
    (pc = "done") =>
        \A k \in 1..Len(results) :
            Truthy(users[results[k]].password_generated) <=> ActuallyCreated(results[k])

\* C30: in every record returned by create_users, in real and in simulation mode,
\* a non-empty group_assigned comes with office365_created True.
C30_GroupMeansCreated ==
    (pc = "done") =>
        \A k \in 1..Len(results) :
            Truthy(users[results[k]].group_assigned) =>
                users[results[k]].office365_created = "True"

----------------------------------------------------------------------------
(* C29: two candidates of one file with the same name *)

\* the candidates at i and j of the file have the same given and family names
SameName(i, j) ==
    /\ file_users[i].full_name = file_users[j].full_name
    /\ file_users[i].full_last_name = file_users[j].full_last_name

\* the index of the matcher has no entry for the candidate at i
NotInIndex(i) ==
    NormalizeForComparison(file_users[i].full_name, file_users[i].full_last_name)
        \notin DOMAIN _existing_users

\* C29: no candidate resolved as 'new' has an entry in the index of the matcher,
\* and a resolved candidate with the name of an earlier one, and of no indexed
\* identity, is resolved as 'new' with an address other than the earlier one's.
C29_BatchDoesNotFeedIndex ==
    /\ \A i \in 1..Len(file_users) : file_users[i].status = "new" => NotInIndex(i)
    /\ \A i \in 1..Len(file_users), j \in 1..Len(file_users) :
          (i < j /\ j < file_idx /\ SameName(i, j) /\ NotInIndex(j)) =>
              /\ file_users[i].status = "new"
              /\ file_users[j].status = "new"
              /\ Lower(file_users[j].institutional_email)
                    # Lower(file_users[i].institutional_email)

====
